---- MODULE Spec2Model ----
(***************************************************************************)
(* DynamicTextureAtlasBuilder (bevy_sprite): new and add_texture, with the *)
(* row-by-row pixel copy of place_texture and the integer conversions      *)
(* to_size2 / to_rect.  The rectangle allocator, the image store and the   *)
(* layout registry are the collaborators the builder calls.                *)
(*                                                                         *)
(* Integer types.  A u32 is the record [hi, lo]: hi is bit 31, lo the low  *)
(* 31 bits, so its value is hi * 2^31 + lo.  An i32 is an integer in       *)
(* I32_MIN..I32_MAX.  A usize that the code obtains from a non-negative    *)
(* i32 or a small u32 is a natural number.                                 *)
(***************************************************************************)
EXTENDS Integers, Sequences, FiniteSets, TLC

VARIABLES
    build,         \* "debug": arithmetic overflow panics; "release": it wraps
    pc,            \* "start" before new, "ready" with a builder, "aborted" after a panic
    self,          \* the builder: [atlas_allocator, padding]
    textures,      \* the image store entry of atlas_texture_handle
    atlas_layout,  \* the layout registry: sequence of URect
    ret,           \* outcome of the last call
    args,          \* history: the arguments new was called with
    sources,       \* history: sources[i] is the image placed as atlas_layout[i]
    last           \* history: what the last add_texture was given and did

vars == <<build, pc, self, textures, atlas_layout, ret, args, sources, last>>

\* ---------------------------------------------------------------- bounds
MaxCanvas == 3     \* atlas widths range over 1..MaxCanvas, heights over the top two
MaxTex == 2        \* small source extents range over 0..MaxTex
MaxCalls == 2      \* add_texture is called while the registry is shorter

\* ---------------------------------------------------------- machine integers
I32_MAX == 2147483647
I32_MIN == -I32_MAX - 1

U32(n) == [hi |-> 0, lo |-> n]
U32_MAX == [hi |-> 1, lo |-> I32_MAX]
U32_POW31 == [hi |-> 1, lo |-> 0]

Some(v) == [some |-> TRUE, v |-> v]
None == [some |-> FALSE, v |-> 0]

\* u32 + u32: the 32-bit sum and whether it carried out of bit 31.
U32_add(a, b) ==
    LET c == a.lo > I32_MAX - b.lo
        lo == IF c THEN (a.lo - I32_MAX - 1) + b.lo ELSE a.lo + b.lo
        h == a.hi + b.hi + (IF c THEN 1 ELSE 0)
    IN [overflow |-> h >= 2, val |-> [hi |-> h % 2, lo |-> lo]]

U32_lt(a, b) == a.hi < b.hi \/ (a.hi = b.hi /\ a.lo < b.lo)

\* u32::saturating_sub
saturating_sub(a, b) ==
    IF U32_lt(a, b) THEN U32(0)
    ELSE IF a.hi = b.hi THEN [hi |-> 0, lo |-> a.lo - b.lo]
    ELSE IF a.lo >= b.lo THEN [hi |-> 1, lo |-> a.lo - b.lo]
    ELSE [hi |-> 0, lo |-> (a.lo - b.lo) + I32_MAX + 1]

\* `u as i32`: reinterpret the 32 bits as two's complement.
as_i32(u) == IF u.hi = 1 THEN u.lo - I32_MAX - 1 ELSE u.lo

\* i32::try_from(u32) and u32::try_from(i32)
try_into_i32(u) == IF u.hi = 0 THEN Some(u.lo) ELSE None
try_into_u32(i) == IF i >= 0 THEN Some(U32(i)) ELSE None

\* i32 - i32: whether it leaves the i32 range, and the wrapped difference.
I32_sub(a, b) ==
    IF b >= 0
    THEN IF a < I32_MIN + b
         THEN [overflow |-> TRUE, val |-> (a + I32_MAX + 1) + ((I32_MAX - b) + 1)]
         ELSE [overflow |-> FALSE, val |-> a - b]
    ELSE IF a > I32_MAX + b
         THEN [overflow |-> TRUE, val |-> (a - I32_MAX - 1) - (b + I32_MAX + 1)]
         ELSE [overflow |-> FALSE, val |-> a - b]

\* ------------------------------------------------------------- conversions
\* to_size2: UVec2 -> Option<guillotiere::Size>; both components must fit an i32.
to_size2(vec2) ==
    LET x == try_into_i32(vec2[1])
        y == try_into_i32(vec2[2])
    IN IF x.some /\ y.some THEN Some(<<x.v, y.v>>) ELSE None

\* to_rect: guillotiere::Rectangle -> Option<URect>; all four coordinates must be >= 0.
to_rect(rectangle) ==
    LET x0 == try_into_u32(rectangle.min[1])
        y0 == try_into_u32(rectangle.min[2])
        x1 == try_into_u32(rectangle.max[1])
        y1 == try_into_u32(rectangle.max[2])
    IN IF x0.some /\ y0.some /\ x1.some /\ y1.some
       THEN Some([min |-> <<x0.v, y0.v>>, max |-> <<x1.v, y1.v>>])
       ELSE None

\* rect.max = rect.max.saturating_sub(UVec2::splat(padding))
TrimMax(rect, padding) ==
    [rect EXCEPT !.max = <<saturating_sub(rect.max[1], padding),
                           saturating_sub(rect.max[2], padding)>>]

\* ---------------------------------------------------------------- allocator
\* Two non-empty integer rectangles [min, max) share a pixel.
Overlap(a, b) ==
    /\ a.min[1] < b.max[1] /\ b.min[1] < a.max[1]
    /\ a.min[2] < b.max[2] /\ b.min[2] < a.max[2]

\* AtlasAllocator::new(size): an empty canvas.
AtlasAllocator_new(size) == [size |-> size, cells |-> {}]

\* The corners a guillotine allocator places a cell at: the origin of a free
\* rectangle, which lies on the canvas origin or on the max edges of allocated
\* cells.  A free corner is one where the cell lies inside the canvas and shares
\* no pixel with an allocated cell; if a cell of that size fits anywhere, it fits
\* at one of them.
FreeSpots(alloc, size) ==
    {p \in ({0} \cup {c.max[1] : c \in alloc.cells})
               \X ({0} \cup {c.max[2] : c \in alloc.cells}) :
        /\ p[1] <= alloc.size[1] /\ size[1] <= alloc.size[1] - p[1]
        /\ p[2] <= alloc.size[2] /\ size[2] <= alloc.size[2] - p[2]
        /\ \A c \in alloc.cells :
              ~Overlap([min |-> p, max |-> <<p[1] + size[1], p[2] + size[2]>>], c)}

\* AtlasAllocator::allocate(size): no allocation for an empty size or when no
\* free corner is left; otherwise a cell of exactly that size at a free corner
\* (pick, when it is one), recorded as occupied.
allocate(alloc, size, pick) ==
    LET free == IF size[1] <= 0 \/ size[2] <= 0 THEN {} ELSE FreeSpots(alloc, size)
        p == IF pick \in free THEN pick ELSE CHOOSE q \in free : TRUE
        cell == [min |-> p, max |-> <<p[1] + size[1], p[2] + size[2]>>]
    IN IF free = {}
       THEN [allocation |-> None, alloc |-> alloc]
       ELSE [allocation |-> Some(cell),
             alloc |-> [alloc EXCEPT !.cells = @ \cup {cell}]]

\* ------------------------------------------------------------------- images
\* A source image: extents (u32), pixel size and pixel contents.  Its bytes are
\* generated from seed, byte j holding Pixel(seed, j); no byte is 0, the value
\* the atlas image is created with.
Pixel(seed, j) == seed * 64 + (j % 64)

\* texture.data.len() = width * height * pixel size; a length beyond I32_MAX is
\* held as I32_MAX (every offset it is compared with is far smaller).
DataLen(texture) ==
    IF texture.width = U32(0) \/ texture.height = U32(0) THEN 0
    ELSE IF texture.width.hi = 1 \/ texture.height.hi = 1 THEN I32_MAX
    ELSE IF texture.width.lo > 32767 \/ texture.height.lo > 32767 THEN I32_MAX
    ELSE texture.width.lo * texture.height.lo * texture.format_size

\* The atlas image of the store: extents, usage flag, pixel size, bytes 0..len-1.
Image_new(width, height, format_size, main_world) ==
    [width |-> width, height |-> height, format_size |-> format_size,
     main_world |-> main_world,
     data |-> [i \in 0 .. (width * height * format_size - 1) |-> 0]]

DataSize(image) == image.width * image.height * image.format_size

\* Assets::get_mut(handle)
get_mut(store) == IF store.present THEN Some(store.image) ELSE None

\* TextureAtlasLayout::add_texture(rect): push and return the index of the entry.
Layout_add_texture(layout, rect) ==
    [layout |-> Append(layout, rect), index |-> Len(layout)]

\* ------------------------------------------------------------ place_texture
\* The rows bound_y .. max_y - 1 of the copy loop.  c holds the loop's constants.
\* A negative rect_width becomes a usize above 2^63: the slice bounds are then
\* out of order or past the end (or their arithmetic overflows), which panics
\* before a byte is written, as does a slice that ends past either buffer.
RECURSIVE CopyRows(_, _, _, _)
CopyRows(c, data, written, bound_y) ==
    IF bound_y >= c.max_y
    THEN [panic |-> FALSE, data |-> data, written |-> written]
    ELSE IF c.rect_width < 0
    THEN [panic |-> TRUE, data |-> data, written |-> written]
    ELSE LET texture_y == bound_y - c.min_y
             begin == (bound_y * c.atlas_width + c.min_x) * c.format_size
             end == begin + c.rect_width * c.format_size
             texture_begin == texture_y * c.rect_width * c.format_size
             texture_end == texture_begin + c.rect_width * c.format_size
         IN IF begin > c.atlas_len \/ end > c.atlas_len \/ texture_end > c.texture_len
            THEN [panic |-> TRUE, data |-> data, written |-> written]
            ELSE CopyRows(c,
                     [i \in DOMAIN data |->
                         IF begin <= i /\ i < end
                         THEN Pixel(c.seed, texture_begin + (i - begin))
                         ELSE data[i]],
                     written \cup (begin .. end - 1),
                     bound_y + 1)

\* place_texture(atlas_texture, allocation, texture): the bytes of atlas_texture
\* afterwards, the byte offsets written, and whether the call panicked.
place_texture(bld, slf, atlas_texture, allocation, texture) ==
    LET max_x == I32_sub(allocation.max[1], as_i32(slf.padding))
        max_y == I32_sub(allocation.max[2], as_i32(slf.padding))
        width == I32_sub(max_x.val, allocation.min[1])
        stop == [panic |-> TRUE, data |-> atlas_texture.data, written |-> {}]
    IN IF bld = "debug" /\ (max_x.overflow \/ max_y.overflow \/ width.overflow)
       THEN stop
       ELSE CopyRows([min_x |-> allocation.min[1], min_y |-> allocation.min[2],
                      max_y |-> max_y.val, rect_width |-> width.val,
                      atlas_width |-> atlas_texture.width,
                      format_size |-> atlas_texture.format_size,
                      atlas_len |-> DataSize(atlas_texture),
                      texture_len |-> DataLen(texture), seed |-> texture.seed],
                     atlas_texture.data, {}, allocation.min[2])

\* ---------------------------------------------------------------------- new
\* Faulty variant of new: an unrepresentable canvas falls back to a 1x1 canvas.
new_Fallback(size, padding) ==
    LET s == to_size2(size)
    IN [panic |-> FALSE,
        self |-> [atlas_allocator |-> AtlasAllocator_new(IF s.some THEN s.v ELSE <<1, 1>>),
                  padding |-> padding]]

\* DynamicTextureAtlasBuilder::new(size, padding)
new(size, padding) ==
    LET s == to_size2(size)
    IN IF s.some
       THEN [panic |-> FALSE,
             self |-> [atlas_allocator |-> AtlasAllocator_new(s.v), padding |-> padding]]
       ELSE [panic |-> TRUE, self |-> [atlas_allocator |-> AtlasAllocator_new(<<0, 0>>),
                                        padding |-> padding]]

\* -------------------------------------------------------------- add_texture
\* asked: the allocator was called; written: the atlas byte offsets the copy
\* wrote; faulted: the copy panicked.
Outcome(kind, index, slf, layout, store, asked, allocation, written, faulted) ==
    [kind |-> kind, index |-> index, self |-> slf, atlas_layout |-> layout,
     textures |-> store, asked |-> asked, allocation |-> allocation,
     written |-> written, faulted |-> faulted]

\* lines 56-59: the requested cell size, texture extent + padding in u32.
RequestedSize(bld, slf, texture) ==
    LET w == U32_add(texture.width, slf.padding)
        h == U32_add(texture.height, slf.padding)
    IN [panic |-> bld = "debug" /\ (w.overflow \/ h.overflow),
        size |-> to_size2(<<w.val, h.val>>)]

\* Faulty variant of NoAllocation: an empty rectangle is pushed before None is returned.
NoAllocation_Pushes(slf, layout, store, asked) ==
    Outcome("None", 0, slf,
            Append(layout, [min |-> <<U32(0), U32(0)>>, max |-> <<U32(0), U32(0)>>]),
            store, asked, None, {}, FALSE)

\* lines 76-78: the allocator granted nothing.
NoAllocation(slf, layout, store, asked) ==
    Outcome("None", 0, slf, layout, store, asked, None, {}, FALSE)

\* Faulty variant of CheckedAtlas: the usage assertion is left out.
CheckedAtlas_NoUsageAssert(store) == get_mut(store)

\* lines 61-69: the atlas image must be in the store, with the MAIN_WORLD usage.
CheckedAtlas(store) ==
    LET atlas_texture == get_mut(store)
    IN IF atlas_texture.some /\ atlas_texture.v.main_world THEN atlas_texture ELSE None

\* Faulty variant of Publish: the length after the push is returned as the index.
Publish_LenAsIndex(slf, layout, store, allocation, written) ==
    LET rect == to_rect(allocation)
        added == Layout_add_texture(layout, TrimMax(rect.v, slf.padding))
    IN Outcome("Some", Len(added.layout), slf, added.layout, store, TRUE,
               Some(allocation), written, FALSE)

\* lines 72-75: publish the trimmed rectangle and return its index.
Publish(slf, layout, store, allocation, written) ==
    LET rect == to_rect(allocation)
        added == Layout_add_texture(layout, TrimMax(rect.v, slf.padding))
    IN IF ~rect.some
       THEN Outcome("panic", 0, slf, layout, store, TRUE, Some(allocation), written,
                    FALSE)
       ELSE Outcome("Some", added.index, slf, added.layout, store, TRUE,
                    Some(allocation), written, FALSE)

\* add_texture(atlas_layout, textures, texture, atlas_texture_handle); pick is the
\* corner the allocator chooses among the free ones.
add_texture(bld, slf, layout, store, texture, pick) ==
    LET req == RequestedSize(bld, slf, texture)
    IN IF req.panic THEN Outcome("panic", 0, slf, layout, store, FALSE, None, {}, FALSE)
       ELSE IF ~req.size.some THEN NoAllocation(slf, layout, store, FALSE)
       ELSE LET got == allocate(slf.atlas_allocator, req.size.v, pick)
                slf2 == [slf EXCEPT !.atlas_allocator = got.alloc]
                atlas_texture == CheckedAtlas(store)
            IN IF ~got.allocation.some THEN NoAllocation(slf, layout, store, TRUE)
               ELSE IF ~atlas_texture.some
               THEN Outcome("panic", 0, slf2, layout, store, TRUE, got.allocation, {},
                            FALSE)
               ELSE LET placed == place_texture(bld, slf2, atlas_texture.v,
                                                got.allocation.v, texture)
                        store2 == [store EXCEPT !.image.data = placed.data]
                    IN IF placed.panic
                       THEN Outcome("panic", 0, slf2, layout, store2, TRUE,
                                    got.allocation, placed.written, TRUE)
                       ELSE Publish(slf2, layout, store2, got.allocation.v,
                                    placed.written)

\* ------------------------------------------------------------ state machine
\* Source extents: small ones, the largest i32 and the largest u32.
TexExtents == {U32(n) : n \in 0 .. MaxTex} \cup {U32(I32_MAX), U32_MAX}
Paddings == {U32(0), U32(1), U32_POW31, U32_MAX}
FormatSizes == {1, 2}

\* The images add_texture is given: any extents, the atlas image's pixel format,
\* and contents that tell the n-th placed image from the others.
Textures(image, n) ==
    [width : TexExtents, height : TexExtents, format_size : {image.format_size},
     seed : {n + 1}]

\* The canvas given to new: the extent of the atlas image of the store, or an
\* extent beyond the i32 range.
CanvasSizes(image) ==
    {<<U32(image.width), U32(image.height)>>,
     <<U32_POW31, U32(image.height)>>,
     <<U32(image.width), U32_MAX>>}

NoBuilder == [atlas_allocator |-> AtlasAllocator_new(<<0, 0>>), padding |-> U32(0)]
NoTexture == [width |-> U32(0), height |-> U32(0), format_size |-> 1, seed |-> 0]
NoCall == [kind |-> "start", asked |-> FALSE, texture |-> NoTexture,
           allocation |-> None, written |-> {}, faulted |-> FALSE]

Init ==
    /\ build \in {"debug", "release"}
    /\ pc = "start"
    /\ self = NoBuilder
    /\ textures \in {[present |-> p, image |-> Image_new(w, h, f, m)] :
                        p \in BOOLEAN, w \in 1 .. MaxCanvas,
                        h \in MaxCanvas - 1 .. MaxCanvas,
                        f \in FormatSizes, m \in BOOLEAN}
    /\ atlas_layout = <<>>
    /\ ret = [kind |-> "start", index |-> 0]
    /\ args = [size |-> <<U32(0), U32(0)>>, padding |-> U32(0)]
    /\ sources = <<>>
    /\ last = NoCall

New ==
    /\ pc = "start"
    /\ \E size \in CanvasSizes(textures.image), padding \in Paddings :
          LET r == new(size, padding)
          IN /\ pc' = IF r.panic THEN "aborted" ELSE "ready"
             /\ self' = IF r.panic THEN self ELSE r.self
             /\ ret' = [kind |-> IF r.panic THEN "panic" ELSE "Builder", index |-> 0]
             /\ args' = [size |-> size, padding |-> padding]
    /\ UNCHANGED <<build, textures, atlas_layout, sources, last>>

\* The corners the allocator may choose among for this request.
Picks(bld, slf, texture) ==
    LET req == RequestedSize(bld, slf, texture)
        free == IF req.size.some /\ req.size.v[1] > 0 /\ req.size.v[2] > 0
                THEN FreeSpots(slf.atlas_allocator, req.size.v) ELSE {}
    IN IF free = {} THEN {<<0, 0>>} ELSE free

AddTexture ==
    /\ pc = "ready"
    /\ Len(atlas_layout) < MaxCalls
    /\ \E texture \in Textures(textures.image, Len(atlas_layout)) :
       \E pick \in Picks(build, self, texture) :
          LET r == add_texture(build, self, atlas_layout, textures, texture, pick)
          IN /\ pc' = IF r.kind = "panic" THEN "aborted" ELSE "ready"
             /\ self' = r.self
             /\ atlas_layout' = r.atlas_layout
             /\ textures' = r.textures
             /\ ret' = [kind |-> r.kind, index |-> r.index]
             /\ sources' = IF r.kind = "Some" THEN Append(sources, texture) ELSE sources
             /\ last' = [kind |-> r.kind, asked |-> r.asked,
                         texture |-> IF r.kind = "None" THEN NoTexture ELSE texture,
                         allocation |-> r.allocation, written |-> r.written,
                         faulted |-> r.faulted]
    /\ UNCHANGED <<build, args>>

Next == New \/ AddTexture

Spec == Init /\ [][Next]_vars

\* --------------------------------------------------------------- vocabulary
Canvas == self.atlas_allocator.size
AtlasImage == textures.image

\* The atlas image is missing from the store, or lacks the MAIN_WORLD usage.
BufferPreconditionViolated == ~textures.present \/ ~textures.image.main_world

\* The true (unbounded) sum of two u32 values lies beyond the i32 range.
BeyondI32(a, b) == a.hi = 1 \/ b.hi = 1 \/ a.lo > I32_MAX - b.lo

\* The padded size of a texture is not representable as an allocator size.
Unrepresentable(texture, padding) ==
    BeyondI32(texture.width, padding) \/ BeyondI32(texture.height, padding)

\* A published rectangle lies inside the canvas, min <= max on both axes.
InsideCanvas(r) ==
    /\ r.min[1].hi = 0 /\ r.min[2].hi = 0 /\ r.max[1].hi = 0 /\ r.max[2].hi = 0
    /\ r.min[1].lo <= r.max[1].lo /\ r.max[1].lo <= Canvas[1]
    /\ r.min[2].lo <= r.max[2].lo /\ r.max[2].lo <= Canvas[2]

\* The pixels of a published rectangle, and the atlas byte offsets that hold them.
URectPixels(r) ==
    IF r.min[1].hi = 1 \/ r.min[2].hi = 1 \/ r.max[1].hi = 1 \/ r.max[2].hi = 1
    THEN {}
    ELSE (r.min[1].lo .. r.max[1].lo - 1) \X (r.min[2].lo .. r.max[2].lo - 1)

Offsets(r, image) ==
    {(q[2] * image.width + q[1]) * image.format_size + k :
        q \in URectPixels(r), k \in 0 .. image.format_size - 1}

\* max - padding on one coordinate, saturating at zero.
Trimmed(coord, padding) ==
    IF padding.hi = 1 \/ padding.lo >= coord THEN U32(0) ELSE U32(coord - padding.lo)

\* The atlas bytes of rectangle r hold the image generated from seed, row for row.
HoldsImage(image, r, seed) ==
    LET w == r.max[1].lo - r.min[1].lo
        h == r.max[2].lo - r.min[2].lo
        s == image.format_size
    IN \A row \in 0 .. h - 1 : \A k \in 0 .. w * s - 1 :
          LET at == ((r.min[2].lo + row) * image.width + r.min[1].lo) * s + k
          IN at \in DOMAIN image.data /\ image.data[at] = Pixel(seed, row * w * s + k)

\* ------------------------------------------------------------------- claims
\* C1: every published rectangle of the registry lies inside the canvas, with
\* min <= max on both axes, and no two of them share a pixel.
C1_PublishedInsideCanvasDisjoint ==
    /\ \A i \in DOMAIN atlas_layout : InsideCanvas(atlas_layout[i])
    /\ \A i, j \in DOMAIN atlas_layout :
          i < j => URectPixels(atlas_layout[i]) \cap URectPixels(atlas_layout[j]) = {}

\* A step whose call returns None changes neither image, registry nor builder.
C2_NoneStep ==
    (pc = "ready" /\ ret'.kind = "None") =>
        /\ textures' = textures /\ atlas_layout' = atlas_layout /\ self' = self
        /\ pc' = "ready"

\* A call that returns None returns None when made again in the state it left.
C2_NoneAgain ==
    (pc = "ready" /\ Len(atlas_layout) < MaxCalls) =>
        \A texture \in Textures(AtlasImage, Len(atlas_layout)) :
        \A pick \in Picks(build, self, texture) :
           LET r == add_texture(build, self, atlas_layout, textures, texture, pick)
           IN r.kind = "None" =>
                 \A again \in Picks(build, r.self, texture) :
                    add_texture(build, r.self, r.atlas_layout, r.textures, texture,
                                again).kind = "None"

\* C2: a call that returns None leaves the atlas image, the registry and the
\* allocator as they were, and the same call in that state returns None again.
C2_NoneLeavesStateUntouched == [][C2_NoneStep]_vars /\ []C2_NoneAgain

\* C2 witness: the allocator was asked and had no room left after a placement.
C2_Witness == ret.kind = "None" /\ last.asked /\ Len(atlas_layout) >= 1

\* C3: after a successful call the published rectangle of the returned index
\* holds the source image row for row, and the bytes the copy wrote are exactly
\* the bytes of that rectangle.
C3_CopyFillsPublishedRect ==
    ret.kind = "Some" =>
        LET R == atlas_layout[ret.index + 1]
        IN /\ HoldsImage(AtlasImage, R, last.texture.seed)
           /\ last.written = Offsets(R, AtlasImage)

\* A successful step changes only atlas bytes of the rectangle it published.
C4_Frame ==
    (pc = "ready" /\ ret'.kind = "Some" /\ Len(atlas_layout') = Len(atlas_layout) + 1) =>
        \A i \in DOMAIN textures.image.data :
           textures'.image.data[i] # textures.image.data[i] =>
              i \in Offsets(atlas_layout'[Len(atlas_layout')], textures'.image)

\* Every image placed so far is in the atlas at the corner it was published at.
C4_EarlierIntact ==
    \A i \in DOMAIN atlas_layout :
       LET t == sources[i]
       IN (/\ t.width.hi = 0 /\ t.width.lo <= 32767
           /\ t.height.hi = 0 /\ t.height.lo <= 32767) =>
             HoldsImage(AtlasImage,
                        [min |-> atlas_layout[i].min,
                         max |-> <<U32(atlas_layout[i].min[1].lo + t.width.lo),
                                   U32(atlas_layout[i].min[2].lo + t.height.lo)>>],
                        t.seed)

\* C4: a successful call changes only bytes of its own published rectangle, and
\* every image placed so far is still in the atlas where it was copied.
C4_OnlyOwnRectChanges == [][C4_Frame]_vars /\ []C4_EarlierIntact

\* C5: a padded size beyond the i32 range makes add_texture return None without
\* calling the allocator.
C5_UnrepresentableIsNone ==
    (pc = "ready" /\ Len(atlas_layout) < MaxCalls) =>
        \A texture \in Textures(AtlasImage, Len(atlas_layout)) :
        \A pick \in Picks(build, self, texture) :
           Unrepresentable(texture, self.padding) =>
              LET r == add_texture(build, self, atlas_layout, textures, texture, pick)
              IN r.kind = "None" /\ ~r.asked

C7_Step ==
    pc = "ready" =>
        /\ ret'.kind = "Some" =>
              /\ Len(atlas_layout') = Len(atlas_layout) + 1
              /\ ret'.index = Len(atlas_layout)
              /\ SubSeq(atlas_layout', 1, Len(atlas_layout)) = atlas_layout
              /\ atlas_layout'[ret'.index + 1].min =
                    <<U32(last'.allocation.v.min[1]), U32(last'.allocation.v.min[2])>>
        /\ ret'.kind # "Some" => atlas_layout' = atlas_layout

\* The index returned last is the position of the last entry.
C7_Count ==
    /\ Len(sources) = Len(atlas_layout)
    /\ ret.kind = "Some" => ret.index = Len(atlas_layout) - 1

\* C7: a successful call appends one entry, at the returned index, whose min
\* corner is the corner of the call's cell; a call that does not succeed leaves
\* the registry alone; earlier entries never change; the k-th success returns k-1.
C7_IndexIsPosition == [][C7_Step]_vars /\ []C7_Count

\* C7 witness: the second successful call returned index 1.
C7_Witness == ret.kind = "Some" /\ ret.index = 1 /\ Len(atlas_layout) = 2

\* C8: the published rectangle of a successful call is the allocated cell with
\* padding taken off its max corner (saturating at zero); its max is not below
\* its min, and its extent is the source image's.
C8_PublishedIsTrimmedCell ==
    ret.kind = "Some" =>
        LET R == atlas_layout[ret.index + 1]
            A == last.allocation.v
            t == last.texture
        IN /\ R.min = <<U32(A.min[1]), U32(A.min[2])>>
           /\ R.max = <<Trimmed(A.max[1], self.padding), Trimmed(A.max[2], self.padding)>>
           /\ R.min[1].lo <= R.max[1].lo /\ R.min[2].lo <= R.max[2].lo
           /\ U32(R.max[1].lo - R.min[1].lo) = t.width
           /\ U32(R.max[2].lo - R.min[2].lo) = t.height

\* C9: with the atlas image as large as the canvas, the pixel sizes equal and
\* the buffer usable, the copy of a granted cell never leaves either buffer.
C9_CopyStaysInBounds ==
    (/\ pc # "start"
     /\ ~BufferPreconditionViolated
     /\ <<AtlasImage.width, AtlasImage.height>> = Canvas
     /\ last.texture.format_size = AtlasImage.format_size
     /\ last.allocation.some) => ~last.faulted

\* C10: new panics exactly when a canvas extent is beyond the i32 range;
\* otherwise the builder holds that canvas and that padding, and keeps them.
C10_NewPanicsIffUnrepresentable ==
    pc # "start" =>
        LET fits == args.size[1].hi = 0 /\ args.size[2].hi = 0
        IN /\ (self = NoBuilder) <=> ~fits
           /\ ~fits => (pc = "aborted" /\ ret.kind = "panic" /\ atlas_layout = <<>>)
           /\ fits => /\ Canvas = <<args.size[1].lo, args.size[2].lo>>
                      /\ self.padding = args.padding

\* C10 witness: a builder with padding 1 has placed an image.
C10_Witness == ret.kind = "Some" /\ self.padding = U32(1) /\ args.padding = U32(1)

====
